---- MODULE Spec2Model ----
(***************************************************************************)
(* Token lifecycle of AwsSessionHandler (aws_session_handler/               *)
(* awssessionhandler.py): the two-tier token cache (long MFA session token, *)
(* short assumed-role token), its validation and refresh in _get_session,   *)
(* and its persistence in the JSON cache file.                              *)
(*                                                                         *)
(* Time is in seconds.  A timestamp text such as                            *)
(* "2020-01-01T12:00:00+01:00" is the record [local, off, colon]: the      *)
(* wall-clock reading, the UTC offset and whether the offset is written     *)
(* with a colon; the instant it denotes is local - off.                     *)
(***************************************************************************)
EXTENDS Integers, Sequences, FiniteSets, TLC

VARIABLES profile, region, config, session,
          disk_cache_disable,
          long_session_token, long_session_duration,
          short_session_token, short_session_duration,
          cache_file, now, ticks, steps, written, last, thr

\* thr is the position of each of two threads inside _get_session, with the
\* counts of their long-token requests; it changes under SpecThreads only
vars == <<profile, region, config, session, disk_cache_disable,
          long_session_token, long_session_duration,
          short_session_token, short_session_duration,
          cache_file, now, ticks, steps, written, last, thr>>

----------------------------------------------------------------------------
(* Bounds of the model *)

\* number of clock advances in one behaviour
MaxTicks == 2

\* number of operations (calls, clock advances, new handlers) in one behaviour
MaxSteps == 3

\* the clock reading when the first handler is constructed
Now0 == 100000

\* the amounts by which the clock advances between two operations
Deltas == {1, 889, 42300}

----------------------------------------------------------------------------
(* Program constants *)

\* default of long_session_duration (12h)
DefaultLongSessionDuration == 43200

\* default of short_session_duration (15m)
DefaultShortSessionDuration == 900

\* now + 10 seconds (reserve expire time for assuming role)
Margin == 10

----------------------------------------------------------------------------
(* Python values *)

\* Python's None where a dict (token, session, file content) is expected
None == [none |-> TRUE]

\* Python's None where a string or a number is expected
NoneStr == "None"

\* truth value of a token field: None (and nothing else here) is falsy
Truthy(tok) == tok # None

\* truth value of a string argument: None and "" are falsy
TruthyArg(a) == a # NoneStr /\ a # ""

\* truth value of a duration argument: None and 0 are falsy, and both are
\* written 0 here
TruthyNum(n) == n # 0

----------------------------------------------------------------------------
(* The external configuration store (aws-cli config), read through botocore *)

Profiles == {"dev", "ops", "stage", "plain", "norole"}

ConfigStore ==
    [p \in Profiles |->
        CASE p = "dev"    -> [region |-> "eu-west-1",
                              role_arn |-> "arn:aws:iam::123:role/X",
                              mfa_serial |-> "arn:aws:iam::123:mfa/user",
                              source_profile |-> "base"]
          [] p = "ops"    -> [region |-> "us-east-1",
                              role_arn |-> "arn:aws:iam::123:role/Y",
                              mfa_serial |-> "arn:aws:iam::123:mfa/user",
                              source_profile |-> "base"]
          [] p = "stage"  -> [role_arn |-> "arn:aws:iam::456:role/Z",
                              mfa_serial |-> "arn:aws:iam::456:mfa/user",
                              source_profile |-> "other"]
          [] p = "plain"  -> [region |-> "us-east-1"]
          [] p = "norole" -> [region |-> "eu-west-1",
                              mfa_serial |-> "arn:aws:iam::123:mfa/user",
                              source_profile |-> "base"]]

\* the section of the profile named "default": the store has none
DefaultProfileConfig == [key \in {} |-> NoneStr]

\* get_scoped_config(): the section of the profile, and the one of the
\* default profile when no profile is given
ScopedConfig(prof) ==
    IF prof = NoneStr THEN DefaultProfileConfig ELSE ConfigStore[prof]

\* mutant: the region stored for the profile replaces a region selector that
\* is already set
ConfigLookup_AlwaysAdopts(prof, rgn) ==
    LET cfg == ScopedConfig(prof)
    IN  [config |-> cfg,
         region |-> IF "region" \in DOMAIN cfg THEN cfg.region ELSE rgn]

\* _config_lookup: the scoped config of the profile, and the region selector
\* after the fallback to the profile's stored region
ConfigLookup(prof, rgn) ==
    LET cfg == ScopedConfig(prof)
    IN  [config |-> cfg,
         region |-> IF "region" \in DOMAIN cfg /\ ~TruthyArg(rgn)
                    THEN cfg.region ELSE rgn]

\* mutant: any() in the place of all()
RoleAssumptionRequired_AnyKey(cfg) ==
    \E key \in {"role_arn", "mfa_serial", "source_profile"} : key \in DOMAIN cfg

\* mutant: the test forgets role_arn
RoleAssumptionRequired_NoRoleArn(cfg) ==
    \A key \in {"mfa_serial", "source_profile"} : key \in DOMAIN cfg

\* all(key in self._config for key in ('role_arn', 'mfa_serial', 'source_profile'))
RoleAssumptionRequired(cfg) ==
    \A key \in {"role_arn", "mfa_serial", "source_profile"} : key \in DOMAIN cfg

----------------------------------------------------------------------------
(* Timestamps *)

\* datetime.isoformat() of the timezone-aware UTC instant t
IsoFormat(t) == [local |-> t, off |-> 0, colon |-> TRUE]

\* ''.join(text.rsplit(':', 1)): drops the colon of the UTC offset
RSplitJoin(text) == [text EXCEPT !.colon = FALSE]

\* mutant: the UTC offset of the text is not applied
StrpTime_IgnoreOffset(text) == text.local

\* datetime.strptime(text, '%Y-%m-%dT%H:%M:%S%z'): the instant of a text
\* whose offset has no colon
StrpTime(text) == text.local - text.off

\* the instant a token expires, as _get_session computes it
ExpireOf(tok) == StrpTime(RSplitJoin(tok.expire))

----------------------------------------------------------------------------
(* The token service (STS) *)

\* Credentials of a get_session_token / assume_role response issued at t
Credentials(kind, t, duration) ==
    [AccessKeyId     |-> <<"ASIA", kind, t>>,
     SecretAccessKey |-> <<"secret", kind, t>>,
     SessionToken    |-> <<"token", kind, t>>,
     Expiration      |-> t + duration]

\* the long token built from a get_session_token response
NewLongSessionToken(cred, cfg, rgn) ==
    [aws_access_key_id     |-> cred.AccessKeyId,
     aws_secret_access_key |-> cred.SecretAccessKey,
     aws_session_token     |-> cred.SessionToken,
     expire                |-> IsoFormat(cred.Expiration),
     source_profile        |-> cfg.source_profile,
     region                |-> rgn]

\* mutant: the short token records the region where the profile belongs
NewShortSessionToken_RegionAsProfile(resp, prof, rgn) ==
    [aws_access_key_id     |-> resp.AccessKeyId,
     aws_secret_access_key |-> resp.SecretAccessKey,
     aws_session_token     |-> resp.SessionToken,
     expire                |-> IsoFormat(resp.Expiration),
     profile               |-> rgn,
     region                |-> rgn]

\* the short token built from an assume_role response
NewShortSessionToken(resp, prof, rgn) ==
    [aws_access_key_id     |-> resp.AccessKeyId,
     aws_secret_access_key |-> resp.SecretAccessKey,
     aws_session_token     |-> resp.SessionToken,
     expire                |-> IsoFormat(resp.Expiration),
     profile               |-> prof,
     region                |-> rgn]

----------------------------------------------------------------------------
(* Validation of the cached tokens in _get_session *)

\* mutant: an expired long token leaves the short token in place
ValidateLong_KeepShortOnExpiry(long, short, cfg, nowm) ==
    IF Truthy(long)
    THEN IF ExpireOf(long) <= nowm
         THEN [long |-> None, short |-> short, token_changed |-> TRUE]
         ELSE IF long.source_profile # cfg.source_profile
              THEN [long |-> None, short |-> None, token_changed |-> FALSE]
              ELSE [long |-> long, short |-> short, token_changed |-> FALSE]
    ELSE [long |-> long, short |-> short, token_changed |-> FALSE]

\* mutant: a long token of another source profile leaves the short token in
\* place
ValidateLong_KeepShortOnSwitch(long, short, cfg, nowm) ==
    IF Truthy(long)
    THEN IF ExpireOf(long) <= nowm
         THEN [long |-> None, short |-> None, token_changed |-> TRUE]
         ELSE IF long.source_profile # cfg.source_profile
              THEN [long |-> None, short |-> short, token_changed |-> FALSE]
              ELSE [long |-> long, short |-> short, token_changed |-> FALSE]
    ELSE [long |-> long, short |-> short, token_changed |-> FALSE]

\* mutant: token_changed starts out True
ValidateLong_AlwaysChanged(long, short, cfg, nowm) ==
    IF Truthy(long)
    THEN IF ExpireOf(long) <= nowm
         THEN [long |-> None, short |-> None, token_changed |-> TRUE]
         ELSE IF long.source_profile # cfg.source_profile
              THEN [long |-> None, short |-> None, token_changed |-> TRUE]
              ELSE [long |-> long, short |-> short, token_changed |-> TRUE]
    ELSE [long |-> long, short |-> short, token_changed |-> TRUE]

\* mutant: the source profile test is the wrong way round
ValidateLong_InvertedSourceProfile(long, short, cfg, nowm) ==
    IF Truthy(long)
    THEN IF ExpireOf(long) <= nowm
         THEN [long |-> None, short |-> None, token_changed |-> TRUE]
         ELSE IF long.source_profile = cfg.source_profile
              THEN [long |-> None, short |-> None, token_changed |-> FALSE]
              ELSE [long |-> long, short |-> short, token_changed |-> FALSE]
    ELSE [long |-> long, short |-> short, token_changed |-> FALSE]

\* the check of the long token: an expired long token, or one of another
\* source profile, takes the short token with it; only expiry sets
\* token_changed
ValidateLong(long, short, cfg, nowm) ==
    IF Truthy(long)
    THEN IF ExpireOf(long) <= nowm
         THEN [long |-> None, short |-> None, token_changed |-> TRUE]
         ELSE IF long.source_profile # cfg.source_profile
              THEN [long |-> None, short |-> None, token_changed |-> FALSE]
              ELSE [long |-> long, short |-> short, token_changed |-> FALSE]
    ELSE [long |-> long, short |-> short, token_changed |-> FALSE]

\* mutant: the profile of the short token is not compared
ValidateShort_IgnoreProfile(short, prof, nowm) ==
    IF Truthy(short)
    THEN IF ExpireOf(short) <= nowm THEN None ELSE short
    ELSE short

\* mutant: the expiry comparison is the wrong way round
ValidateShort_InvertedExpiry(short, prof, nowm) ==
    IF Truthy(short)
    THEN IF ExpireOf(short) >= nowm
         THEN None
         ELSE IF short.profile # prof THEN None ELSE short
    ELSE short

\* the check of the short token: expired, or of another profile
ValidateShort(short, prof, nowm) ==
    IF Truthy(short)
    THEN IF ExpireOf(short) <= nowm
         THEN None
         ELSE IF short.profile # prof THEN None ELSE short
    ELSE short

----------------------------------------------------------------------------
(* The JSON cache file *)

\* the keys of a token dict, in the order the dict literal lists them
LongTokenKeys == <<"aws_access_key_id", "aws_secret_access_key",
                   "aws_session_token", "expire", "source_profile", "region">>

ShortTokenKeys == <<"aws_access_key_id", "aws_secret_access_key",
                    "aws_session_token", "expire", "profile", "region">>

JsonNull == <<"null">>

JsonString(s) == <<"string", s>>

JsonObject(members) == <<"object", members>>

\* json.dump of one field of a token: a string, or null for a None region
JsonDumpField(key, val) ==
    IF key = "region" /\ val = NoneStr THEN JsonNull ELSE JsonString(val)

\* json.dump of a token: null for None, else an object with the dict's
\* members in insertion order
JsonDumpToken(tok, keys) ==
    IF tok = None
    THEN JsonNull
    ELSE JsonObject([i \in 1..Len(keys) |->
                        <<keys[i], JsonDumpField(keys[i], tok[keys[i]])>>])

\* json.dump of cache_tokens
JsonDump(cache_tokens) ==
    JsonObject(<< <<"long_session_token",
                    JsonDumpToken(cache_tokens.long_session_token, LongTokenKeys)>>,
                  <<"short_session_token",
                    JsonDumpToken(cache_tokens.short_session_token, ShortTokenKeys)>> >>)

\* the keys of a JSON object
JsonKeys(obj) == {obj[2][i][1] : i \in 1..Len(obj[2])}

\* the value a JSON object holds for a key (the last member of that name)
JsonMember(obj, key) ==
    LET idx == {i \in 1..Len(obj[2]) : obj[2][i][1] = key}
        i   == CHOOSE j \in idx : \A k \in idx : k <= j
    IN  obj[2][i][2]

\* json.load of one field of a token
JsonLoadField(j) == IF j[1] = "null" THEN NoneStr ELSE j[2]

\* json.load of a token: None for null, else the dict of the object
JsonLoadToken(j) ==
    IF j[1] = "null"
    THEN None
    ELSE [key \in JsonKeys(j) |-> JsonLoadField(JsonMember(j, key))]

\* json.load of the cache file: the dict of its top-level object
JsonLoad(text) ==
    [key \in JsonKeys(text) |-> JsonLoadToken(JsonMember(text, key))]

\* a text that is not JSON (a truncated or overwritten file)
GarbageText == <<"garbage">>

\* json.load returns for a text that is a JSON object, and raises
\* JSONDecodeError for a text that is not JSON
JsonParses(text) == text[1] = "object"

\* the cache file does not exist
NoFile == [exists |-> FALSE, text |-> <<>>]

\* mutant: the file is written when disk caching is disabled, not when it
\* is enabled
WriteCacheFile_Inverted(file, disable, long, short) ==
    IF disable
    THEN [exists |-> TRUE,
          text   |-> JsonDump([long_session_token  |-> long,
                               short_session_token |-> short])]
    ELSE file

\* _write_cache_file: one overwrite with both tokens, skipped when disk
\* caching is disabled
WriteCacheFile(file, disable, long, short) ==
    IF ~disable
    THEN [exists |-> TRUE,
          text   |-> JsonDump([long_session_token  |-> long,
                               short_session_token |-> short])]
    ELSE file

\* mutant: the short token is not taken from the file
Preload_ForgetsShort(file, disable) ==
    IF ~disable /\ file.exists
    THEN LET cache_tokens == JsonLoad(file.text)
         IN  [long  |-> IF "long_session_token" \in DOMAIN cache_tokens
                        THEN cache_tokens["long_session_token"] ELSE None,
              short |-> None]
    ELSE [long |-> None, short |-> None]

\* __init__, preload cache tokens if exists: each token is taken from the
\* file when the file has its key
Preload(file, disable) ==
    IF ~disable /\ file.exists
    THEN LET cache_tokens == JsonLoad(file.text)
         IN  [long  |-> IF "long_session_token" \in DOMAIN cache_tokens
                        THEN cache_tokens["long_session_token"] ELSE None,
              short |-> IF "short_session_token" \in DOMAIN cache_tokens
                        THEN cache_tokens["short_session_token"] ELSE None]
    ELSE [long |-> None, short |-> None]

----------------------------------------------------------------------------
(* The handler's environment when the model starts *)

\* the expiry texts of the long tokens a cache file may already hold:
\* expired a second ago; expiring exactly at the margin (written with a
\* +01:00 offset); valid for six hours
CachedLongExpires ==
    {[local |-> Now0 - 1, off |-> 0, colon |-> TRUE],
     [local |-> Now0 + 3610, off |-> 3600, colon |-> TRUE],
     [local |-> Now0 + 21600, off |-> 0, colon |-> TRUE]}

\* the same for short tokens: expiring exactly at the margin; valid for
\* fifteen minutes
CachedShortExpires ==
    {[local |-> Now0 + 3610, off |-> 3600, colon |-> TRUE],
     [local |-> Now0 + 900, off |-> 0, colon |-> TRUE]}

\* a cached long token
CachedLong(e, sp) ==
    [aws_access_key_id     |-> <<"ASIA", "cached-long", 0>>,
     aws_secret_access_key |-> <<"secret", "cached-long", 0>>,
     aws_session_token     |-> <<"token", "cached-long", 0>>,
     expire                |-> e,
     source_profile        |-> sp,
     region                |-> "eu-west-1"]

\* the long tokens a cache file may already hold: of source profile "base"
\* with each expiry, and of source profile "other", valid for six hours
CachedLongTokens ==
    {CachedLong(e, "base") : e \in CachedLongExpires}
        \cup {CachedLong([local |-> Now0 + 21600, off |-> 0, colon |-> TRUE],
                         "other")}

CachedShortTokens ==
    {[aws_access_key_id     |-> <<"ASIA", "cached-short", 0>>,
      aws_secret_access_key |-> <<"secret", "cached-short", 0>>,
      aws_session_token     |-> <<"token", "cached-short", 0>>,
      expire                |-> e,
      profile               |-> p,
      region                |-> "eu-west-1"] :
        e \in CachedShortExpires, p \in {"dev"}}

\* the members a cache file has for one token: none, null, or the token
CachedMembers(key, tokens, keys) ==
    {<<>>, << <<key, JsonNull>> >>}
        \cup {<< <<key, JsonDumpToken(t, keys)>> >> : t \in tokens}

\* the cache files a handler may find: none, or a JSON object with each of
\* the two tokens absent, null or present
InitialCacheFiles ==
    {NoFile} \cup
    {[exists |-> TRUE, text |-> JsonObject(l \o s)] :
        l \in CachedMembers("long_session_token", CachedLongTokens, LongTokenKeys),
        s \in CachedMembers("short_session_token", CachedShortTokens, ShortTokenKeys)}

\* the (long_session_duration, short_session_duration) arguments: not given,
\* or one hour and half an hour
DurationArgs == {<<0, 0>>, <<3600, 1800>>}

\* the region argument of the constructor and of set(): not given, or a
\* region that no profile of the store names
RegionArgs == {NoneStr, "ap-south-1"}

----------------------------------------------------------------------------
(* What the last operation did: the observations the properties are about *)

\* the operation before the last one, and how it ended
Prev(l) == [op |-> l.op, outcome |-> l.outcome, set_region |-> l.set_region]

NoPrev == [op |-> "none", outcome |-> "ok", set_region |-> NoneStr]

\* the observation of an operation that reaches no token code; pre_region is
\* the region selector the operation found, set_region the region argument
\* of set()
NoCall(op, prev) ==
    [op |-> op, prev |-> prev, path |-> "none", outcome |-> "ok",
     pre_region |-> region, set_region |-> NoneStr,
     mfa_prompts |-> 0, long_requests |-> 0, assume_calls |-> 0,
     cache_writes |-> 0, token_changed |-> FALSE,
     long_duration |-> 0, short_duration |-> 0,
     pre_long |-> None, pre_short |-> None, pre_cache |-> NoFile]

\* no thread is inside _get_session: the handler has a single caller
NoThreads ==
    [mode |-> "single", holder |-> 0,
     pc |-> <<"idle", "idle">>, token_changed |-> <<FALSE, FALSE>>,
     long_requests |-> 0, long_issued |-> 0, rejected |-> 0]

----------------------------------------------------------------------------
(* Operations *)

\* AwsSessionHandler.__init__ with the given arguments, over the cache file
\* on disk.  json.load of a file that is not JSON raises, and the exception
\* leaves __init__: the caller gets no handler.
Construct(prof, rgn, disable, durations, file) ==
    LET cl     == ConfigLookup(prof, rgn)
        raised == ~disable /\ file.exists /\ ~JsonParses(file.text)
        pre    == IF raised THEN [long |-> None, short |-> None]
                  ELSE Preload(file, disable)
    IN  /\ profile' = prof
        /\ region' = cl.region
        /\ config' = cl.config
        /\ session' = None
        /\ disk_cache_disable' = disable
        /\ long_session_duration' =
             IF TruthyNum(durations[1]) THEN durations[1]
             ELSE DefaultLongSessionDuration
        /\ short_session_duration' =
             IF TruthyNum(durations[2]) THEN durations[2]
             ELSE DefaultShortSessionDuration
        /\ long_session_token' = pre.long
        /\ short_session_token' = pre.short
        /\ cache_file' = file
        /\ last' = [NoCall("__init__", Prev(last)) EXCEPT
                      !.pre_region = rgn,
                      !.outcome = IF raised THEN "json_decode_error" ELSE "ok"]

Init ==
    /\ now = Now0
    /\ ticks = 0
    /\ steps = 0
    /\ written = None
    /\ \E prof \in Profiles, rgn \in RegionArgs, disable \in BOOLEAN,
          durations \in DurationArgs, file \in InitialCacheFiles :
         /\ disable => file = NoFile
         /\ TruthyNum(durations[1]) => file = NoFile
         /\ profile = prof
         /\ region = ConfigLookup(prof, rgn).region
         /\ config = ConfigLookup(prof, rgn).config
         /\ session = None
         /\ disk_cache_disable = disable
         /\ long_session_duration =
              IF TruthyNum(durations[1]) THEN durations[1]
              ELSE DefaultLongSessionDuration
         /\ short_session_duration =
              IF TruthyNum(durations[2]) THEN durations[2]
              ELSE DefaultShortSessionDuration
         /\ long_session_token = Preload(file, disable).long
         /\ short_session_token = Preload(file, disable).short
         /\ cache_file = file
         /\ last = [NoCall("__init__", NoPrev) EXCEPT !.pre_region = rgn]
    /\ thr = NoThreads

\* a fresh handler (a new run of the program, with the same caching and
\* duration arguments) over the same cache file
NewHandler(prof, rgn) ==
    /\ Construct(prof, rgn, disk_cache_disable,
                 <<long_session_duration, short_session_duration>>, cache_file)
    /\ UNCHANGED <<now, ticks, written>>

\* AwsSessionHandler.set
Set(prof, rgn) ==
    /\ profile' = IF TruthyArg(prof) THEN prof ELSE profile
    /\ region' = IF TruthyArg(rgn) THEN rgn ELSE region
    /\ last' = [NoCall("set", Prev(last)) EXCEPT !.set_region = rgn]
    /\ UNCHANGED <<config, session, disk_cache_disable,
                   long_session_token, long_session_duration,
                   short_session_token, short_session_duration,
                   cache_file, now, ticks, written>>

\* time passes between two operations
Tick(d) ==
    /\ ticks < MaxTicks
    /\ now' = now + d
    /\ ticks' = ticks + 1
    /\ last' = NoCall("tick", Prev(last))
    /\ UNCHANGED <<profile, region, config, session, disk_cache_disable,
                   long_session_token, long_session_duration,
                   short_session_token, short_session_duration,
                   cache_file, written>>

\* boto3.Session(region_name, aws_access_key_id, ...) over the short token
SessionFromToken(rgn, short) ==
    [region_name           |-> rgn,
     aws_access_key_id     |-> short.aws_access_key_id,
     aws_secret_access_key |-> short.aws_secret_access_key,
     aws_session_token     |-> short.aws_session_token]

\* boto3.Session(botocore_session=self._lookup_session): the credentials and
\* the region are the ones botocore finds for the profile
SessionFromProfile(prof, cfg) ==
    [botocore_profile |-> prof,
     region_name      |-> IF "region" \in DOMAIN cfg THEN cfg.region ELSE NoneStr]

\* mutant: a rejected MFA code is asked for a second time before the call
\* gives up
RefreshLong_PromptsAgain(long, mfa_accepted, cfg, rgn, t, duration) ==
    IF ~Truthy(long)
    THEN [token    |-> IF mfa_accepted
                       THEN NewLongSessionToken(Credentials("long", t, duration),
                                                cfg, rgn)
                       ELSE long,
          raised   |-> ~mfa_accepted,
          prompts  |-> IF mfa_accepted THEN 1 ELSE 2,
          requests |-> IF mfa_accepted THEN 1 ELSE 2,
          duration |-> duration]
    ELSE [token |-> long, raised |-> FALSE, prompts |-> 0, requests |-> 0,
          duration |-> 0]

\* if not self._long_session_token: one MFA prompt and one get_session_token
\* request of `duration` seconds; an accepted request gives the new long
\* token, a rejected one raises
RefreshLong(long, mfa_accepted, cfg, rgn, t, duration) ==
    IF ~Truthy(long)
    THEN [token    |-> IF mfa_accepted
                       THEN NewLongSessionToken(Credentials("long", t, duration),
                                                cfg, rgn)
                       ELSE long,
          raised   |-> ~mfa_accepted,
          prompts  |-> 1,
          requests |-> 1,
          duration |-> duration]
    ELSE [token |-> long, raised |-> FALSE, prompts |-> 0, requests |-> 0,
          duration |-> 0]

\* if not self._short_session_token: token_changed, and one assume_role
\* request of `duration` seconds; an accepted request gives the new short
\* token, a rejected one raises
RefreshShort(short, assume_accepted, prof, rgn, t, duration) ==
    IF ~Truthy(short)
    THEN [token    |-> IF assume_accepted
                       THEN NewShortSessionToken(Credentials("short", t, duration),
                                                 prof, rgn)
                       ELSE short,
          raised   |-> ~assume_accepted,
          calls    |-> 1,
          duration |-> duration,
          token_changed |-> TRUE]
    ELSE [token |-> short, raised |-> FALSE, calls |-> 0, duration |-> 0,
          token_changed |-> FALSE]

\* AwsSessionHandler._get_session, entered through get_session, client or
\* resource.  The token service accepts or rejects the long-token request (the
\* MFA code) and the assume-role request; a rejected request raises and ends
\* the call there.
GetSessionInternal(entry, mfa_accepted, assume_accepted) ==
    LET cl  == ConfigLookup(profile, region)
        cfg == cl.config
        rgn == cl.region
    IN
    IF RoleAssumptionRequired(cfg)
    THEN
      LET nowm == now + Margin
          vl   == ValidateLong(long_session_token, short_session_token,
                               cfg, nowm)
          vs   == ValidateShort(vl.short, profile, nowm)
          rl   == RefreshLong(vl.long, mfa_accepted, cfg, rgn, now,
                              long_session_duration)
          rs   == IF rl.raised
                  THEN [token |-> vs, raised |-> FALSE, calls |-> 0,
                        duration |-> 0, token_changed |-> FALSE]
                  ELSE RefreshShort(vs, assume_accepted, profile, rgn, now,
                                    short_session_duration)
          token_changed == vl.token_changed \/ rs.token_changed
          done   == ~rl.raised /\ ~rs.raised
          writes == done /\ token_changed
      IN
        /\ config' = cfg
        /\ region' = rgn
        /\ long_session_token' = rl.token
        /\ short_session_token' = rs.token
        /\ session' = IF done THEN SessionFromToken(rgn, rs.token) ELSE session
        /\ cache_file' = IF writes
                         THEN WriteCacheFile(cache_file, disk_cache_disable,
                                             rl.token, rs.token)
                         ELSE cache_file
        /\ written' = IF writes /\ ~disk_cache_disable
                      THEN [long |-> rl.token, short |-> rs.token]
                      ELSE written
        /\ last' = [op |-> entry, prev |-> Prev(last),
                    path |-> "assume_role",
                    outcome |-> IF rl.raised THEN "long_request_rejected"
                                ELSE IF rs.raised THEN "assume_role_rejected"
                                ELSE "ok",
                    pre_region |-> region, set_region |-> NoneStr,
                    mfa_prompts   |-> rl.prompts,
                    long_requests |-> rl.requests,
                    assume_calls  |-> rs.calls,
                    cache_writes  |-> IF writes /\ ~disk_cache_disable
                                      THEN 1 ELSE 0,
                    token_changed |-> token_changed,
                    long_duration  |-> rl.duration,
                    short_duration |-> rs.duration,
                    pre_long  |-> long_session_token,
                    pre_short |-> short_session_token,
                    pre_cache |-> cache_file]
        /\ UNCHANGED <<profile, disk_cache_disable, long_session_duration,
                       short_session_duration, now, ticks>>
    ELSE
        /\ config' = cfg
        /\ region' = rgn
        /\ session' = SessionFromProfile(profile, cfg)
        /\ last' = [NoCall(entry, Prev(last)) EXCEPT
                      !.path = "default",
                      !.pre_long = long_session_token,
                      !.pre_short = short_session_token,
                      !.pre_cache = cache_file]
        /\ UNCHANGED <<profile, disk_cache_disable,
                       long_session_token, long_session_duration,
                       short_session_token, short_session_duration,
                       cache_file, now, ticks, written>>

\* AwsSessionHandler.get_session: _get_session, with no check before it
GetSession(mfa_accepted, assume_accepted) ==
    GetSessionInternal("get_session", mfa_accepted, assume_accepted)

\* the arguments of set(): a profile, or a region
SetArgs == {<<prof, NoneStr>> : prof \in Profiles}
               \cup {<<NoneStr, rgn>> : rgn \in RegionArgs \ {NoneStr}}

\* one more operation of the behaviour, by the handler's single caller
Step == steps < MaxSteps /\ steps' = steps + 1 /\ UNCHANGED thr

Next ==
    \/ Step /\ \E mfa_accepted \in BOOLEAN, assume_accepted \in BOOLEAN :
                 GetSession(mfa_accepted, assume_accepted)
    \/ Step /\ \E args \in SetArgs : Set(args[1], args[2])
    \/ Step /\ \E d \in Deltas : Tick(d)
    \/ Step /\ NewHandler(profile, NoneStr)

Spec == Init /\ [][Next]_vars

----------------------------------------------------------------------------
(* The entry points of a handler whose profile may be unset, and the        *)
(* constructor over a cache file that may be damaged                        *)

\* the profile argument: None, or a profile of the store
EntryProfiles == {NoneStr, "dev", "plain"}

\* a cache file that is a JSON object with neither token
EmptyObjectFile == [exists |-> TRUE, text |-> JsonObject(<<>>)]

\* a cache file whose content is not JSON
GarbageFile == [exists |-> TRUE, text |-> GarbageText]

\* a cache file with a long and a short token that are usable for "dev"
UsableFile ==
    [exists |-> TRUE,
     text |-> JsonDump(
        [long_session_token |->
            CachedLong([local |-> Now0 + 21600, off |-> 0, colon |-> TRUE],
                       "base"),
         short_session_token |->
            [aws_access_key_id     |-> <<"ASIA", "cached-short", 0>>,
             aws_secret_access_key |-> <<"secret", "cached-short", 0>>,
             aws_session_token     |-> <<"token", "cached-short", 0>>,
             expire  |-> [local |-> Now0 + 900, off |-> 0, colon |-> TRUE],
             profile |-> "dev",
             region  |-> "eu-west-1"]])]

\* the last constructor call returned a handler
HandlerExists == ~(last.op = "__init__" /\ last.outcome # "ok")

\* the check client() and resource() make before _get_session
MissingRegionAndProfile == ~TruthyArg(profile) /\ ~TruthyArg(region)

\* the entry point raises 'ERROR: missing region and profile' and touches
\* nothing
RaiseMissing(entry) ==
    /\ last' = [NoCall(entry, Prev(last)) EXCEPT
                  !.outcome = "missing_region_and_profile",
                  !.pre_long = long_session_token,
                  !.pre_short = short_session_token,
                  !.pre_cache = cache_file]
    /\ UNCHANGED <<profile, region, config, session, disk_cache_disable,
                   long_session_token, long_session_duration,
                   short_session_token, short_session_duration,
                   cache_file, now, ticks, written>>

\* AwsSessionHandler.client: the check, then _get_session
Client(mfa_accepted, assume_accepted) ==
    IF MissingRegionAndProfile
    THEN RaiseMissing("client")
    ELSE GetSessionInternal("client", mfa_accepted, assume_accepted)

\* AwsSessionHandler.resource: the check, then _get_session
Resource(mfa_accepted, assume_accepted) ==
    IF MissingRegionAndProfile
    THEN RaiseMissing("resource")
    ELSE GetSessionInternal("resource", mfa_accepted, assume_accepted)

\* _write_cache_file of a process that shares the cache file is interrupted
\* between open(..., 'w') and json.dump: the file is left with a text that is
\* not JSON
InterruptedWrite ==
    /\ ~disk_cache_disable
    /\ cache_file' = GarbageFile
    /\ last' = NoCall("interrupted_write", Prev(last))
    /\ UNCHANGED <<profile, region, config, session, disk_cache_disable,
                   long_session_token, long_session_duration,
                   short_session_token, short_session_duration,
                   now, ticks, written>>

InitEntry ==
    /\ now = Now0
    /\ ticks = 0
    /\ steps = 0
    /\ written = None
    /\ thr = NoThreads
    /\ \E prof \in EntryProfiles, rgn \in RegionArgs, disable \in BOOLEAN,
          file \in {NoFile, EmptyObjectFile, UsableFile} :
         /\ disable => file = NoFile
         /\ profile = prof
         /\ region = ConfigLookup(prof, rgn).region
         /\ config = ConfigLookup(prof, rgn).config
         /\ session = None
         /\ disk_cache_disable = disable
         /\ long_session_duration = DefaultLongSessionDuration
         /\ short_session_duration = DefaultShortSessionDuration
         /\ long_session_token = Preload(file, disable).long
         /\ short_session_token = Preload(file, disable).short
         /\ cache_file = file
         /\ last = [NoCall("__init__", NoPrev) EXCEPT !.pre_region = rgn]

NextEntry ==
    \/ Step /\ HandlerExists
            /\ \E mfa_accepted \in BOOLEAN, assume_accepted \in BOOLEAN :
                 GetSession(mfa_accepted, assume_accepted)
    \/ Step /\ HandlerExists
            /\ \E mfa_accepted \in BOOLEAN, assume_accepted \in BOOLEAN :
                 Client(mfa_accepted, assume_accepted)
    \/ Step /\ HandlerExists
            /\ \E mfa_accepted \in BOOLEAN, assume_accepted \in BOOLEAN :
                 Resource(mfa_accepted, assume_accepted)
    \/ Step /\ HandlerExists
            /\ \E rgn \in RegionArgs \ {NoneStr} : Set(NoneStr, rgn)
    \/ Step /\ InterruptedWrite
    \/ Step /\ NewHandler(profile, NoneStr)

SpecEntry == InitEntry /\ [][NextEntry]_vars

----------------------------------------------------------------------------
(* Two threads of control that call get_session on one shared handler.  A   *)
(* thread can be preempted wherever _get_session blocks: at the MFA prompt  *)
(* and the long-token request, at the assume-role request, and before it    *)
(* builds the session.  token_changed is a local of each call; the token    *)
(* fields and the cache file are shared.  In mode "locked" the callers wrap *)
(* the whole call in one mutual exclusion (the handler itself has none); in *)
(* mode "free" they do not.                                                 *)

ThreadIds == {1, 2}

\* where a call goes after the long token is settled: the test of line 176
AfterLong(short) == IF Truthy(short) THEN "finish" ELSE "assume_role"

\* the call of thread t ends, by return or by an exception
Leave(t, th) == [th EXCEPT !.pc[t] = "done", !.holder = 0]

\* lines 126-158 and 176-177: the configuration lookup and the two
\* validations, up to the first request that blocks
T_Enter(t) ==
    /\ thr.pc[t] = "idle"
    /\ thr.mode = "locked" => thr.holder = 0
    /\ LET cl  == ConfigLookup(profile, region)
           cfg == cl.config
           rgn == cl.region
       IN
       IF RoleAssumptionRequired(cfg)
       THEN
         LET nowm == now + Margin
             vl   == ValidateLong(long_session_token, short_session_token,
                                  cfg, nowm)
             vs   == ValidateShort(vl.short, profile, nowm)
         IN
           /\ config' = cfg
           /\ region' = rgn
           /\ long_session_token' = vl.long
           /\ short_session_token' = vs
           /\ thr' = [thr EXCEPT
                        !.holder = IF thr.mode = "locked" THEN t ELSE 0,
                        !.pc[t] = IF Truthy(vl.long) THEN AfterLong(vs)
                                  ELSE "request_long",
                        !.token_changed[t] =
                            vl.token_changed
                              \/ (Truthy(vl.long) /\ ~Truthy(vs))]
           /\ UNCHANGED session
       ELSE
           /\ config' = cfg
           /\ region' = rgn
           /\ session' = SessionFromProfile(profile, cfg)
           /\ thr' = Leave(t, thr)
           /\ UNCHANGED <<long_session_token, short_session_token>>
    /\ UNCHANGED <<profile, disk_cache_disable, long_session_duration,
                   short_session_duration, cache_file, now, ticks, steps,
                   last, written>>

\* lines 159-177: the MFA prompt and the long-token request of a call that
\* found no long token at line 158, then the test of the short token
T_RequestLong(t, mfa_accepted) ==
    /\ thr.pc[t] = "request_long"
    /\ LET rl == RefreshLong(None, mfa_accepted, config, region, now,
                             long_session_duration)
           th == [thr EXCEPT
                    !.long_requests = @ + rl.requests,
                    !.long_issued = @ + (IF rl.raised THEN 0 ELSE 1),
                    !.rejected = @ + (IF rl.raised THEN 1 ELSE 0)]
       IN
         /\ long_session_token' =
              IF rl.raised THEN long_session_token ELSE rl.token
         /\ thr' = IF rl.raised THEN Leave(t, th)
                   ELSE [th EXCEPT
                           !.pc[t] = AfterLong(short_session_token),
                           !.token_changed[t] =
                               @ \/ ~Truthy(short_session_token)]
    /\ UNCHANGED <<profile, region, config, session, disk_cache_disable,
                   long_session_duration, short_session_token,
                   short_session_duration, cache_file, now, ticks, steps,
                   last, written>>

\* lines 178-196: the assume-role request with the long token's credentials
T_AssumeRole(t, assume_accepted) ==
    /\ thr.pc[t] = "assume_role"
    /\ LET rs == RefreshShort(None, assume_accepted, profile, region, now,
                              short_session_duration)
           raised == rs.raised \/ ~Truthy(long_session_token)
       IN
         /\ short_session_token' =
              IF raised THEN short_session_token ELSE rs.token
         /\ thr' = IF raised THEN Leave(t, thr)
                   ELSE [thr EXCEPT !.pc[t] = "finish"]
    /\ UNCHANGED <<profile, region, config, session, disk_cache_disable,
                   long_session_token, long_session_duration,
                   short_session_duration, cache_file, now, ticks, steps,
                   last, written>>

\* lines 198-208: the session from the short token, and the cache write of a
\* call whose token_changed is set
T_Finish(t) ==
    /\ thr.pc[t] = "finish"
    /\ LET raised == ~Truthy(short_session_token)
           writes == ~raised /\ thr.token_changed[t]
       IN
         /\ session' = IF raised THEN session
                       ELSE SessionFromToken(region, short_session_token)
         /\ cache_file' = IF writes
                          THEN WriteCacheFile(cache_file, disk_cache_disable,
                                              long_session_token,
                                              short_session_token)
                          ELSE cache_file
         /\ written' = IF writes /\ ~disk_cache_disable
                       THEN [long |-> long_session_token,
                             short |-> short_session_token]
                       ELSE written
    /\ thr' = Leave(t, thr)
    /\ UNCHANGED <<profile, region, config, disk_cache_disable,
                   long_session_token, long_session_duration,
                   short_session_token, short_session_duration,
                   now, ticks, steps, last>>

\* a handler over each of the cache files, shared by two threads that have
\* not called yet
InitThreads ==
    /\ now = Now0
    /\ ticks = 0
    /\ steps = 0
    /\ written = None
    /\ \E prof \in {"dev", "plain"}, file \in InitialCacheFiles,
          mode \in {"free", "locked"} :
         /\ thr = [NoThreads EXCEPT !.mode = mode]
         /\ profile = prof
         /\ region = ConfigLookup(prof, NoneStr).region
         /\ config = ConfigLookup(prof, NoneStr).config
         /\ session = None
         /\ disk_cache_disable = FALSE
         /\ long_session_duration = DefaultLongSessionDuration
         /\ short_session_duration = DefaultShortSessionDuration
         /\ long_session_token = Preload(file, FALSE).long
         /\ short_session_token = Preload(file, FALSE).short
         /\ cache_file = file
         /\ last = [NoCall("__init__", NoPrev) EXCEPT !.pre_region = NoneStr]

NextThreads ==
    \/ \E t \in ThreadIds : T_Enter(t)
    \/ \E t \in ThreadIds, mfa_accepted \in BOOLEAN :
         T_RequestLong(t, mfa_accepted)
    \/ \E t \in ThreadIds, assume_accepted \in BOOLEAN :
         T_AssumeRole(t, assume_accepted)
    \/ \E t \in ThreadIds : T_Finish(t)

SpecThreads == InitThreads /\ [][NextThreads]_vars

----------------------------------------------------------------------------
(* Vocabulary of the properties.  It is stated on the observations and on   *)
(* the configuration store, not through the operators of the handler.      *)

\* the last operation was a get_session call
Called == last.op = "get_session"

\* the current profile needs role assumption: its configuration has all of
\* role_arn, mfa_serial and source_profile
OnAssumeRolePath ==
    /\ "role_arn" \in DOMAIN ConfigStore[profile]
    /\ "mfa_serial" \in DOMAIN ConfigStore[profile]
    /\ "source_profile" \in DOMAIN ConfigStore[profile]

\* the instant the expiry text of a token denotes
Instant(tok) == tok.expire.local - tok.expire.off

\* a token is expired at the call: expire <= now + 10s
Expired(tok) == Instant(tok) <= now + 10

\* the long token the call found was usable
PreLongValid ==
    /\ last.pre_long # None
    /\ ~Expired(last.pre_long)
    /\ last.pre_long.source_profile = ConfigStore[profile].source_profile

\* the short token the call found was usable
PreShortValid ==
    /\ last.pre_short # None
    /\ ~Expired(last.pre_short)
    /\ last.pre_short.profile = profile

\* the call did not keep the long / short token it found
LongDiscarded == last.pre_long # None => long_session_token # last.pre_long

ShortDiscarded == last.pre_short # None => short_session_token # last.pre_short

\* the token service issued a long / short token in the call
LongIssued ==
    last.long_requests = 1 /\ last.outcome # "long_request_rejected"

ShortIssued == last.assume_calls = 1 /\ last.outcome = "ok"

\* the call made no MFA prompt, no token-service call and no cache write
NothingDone ==
    /\ last.mfa_prompts = 0
    /\ last.long_requests = 0
    /\ last.assume_calls = 0
    /\ last.cache_writes = 0
    /\ cache_file = last.pre_cache

\* the token the cache file holds under a key, field by field
FileToken(key) ==
    LET j == JsonMember(cache_file.text, key)
    IN  [k \in JsonKeys(j) |-> JsonMember(j, k)]

----------------------------------------------------------------------------
(* Properties *)

\* C1: on the assume-role path, a call that finds an expired long token
\* (expire <= now + 10s) discards both the long and the short token, whatever
\* the short token's expiry and profile, prompts for MFA exactly once, makes
\* exactly one long-token request and, once that request is accepted, exactly
\* one role-assumption call.
C1_ExpiredLongRefreshesBoth ==
    (Called /\ OnAssumeRolePath /\ last.pre_long # None /\ Expired(last.pre_long))
    => /\ LongDiscarded
       /\ ShortDiscarded
       /\ last.mfa_prompts = 1
       /\ last.long_requests = 1
       /\ last.assume_calls = IF LongIssued THEN 1 ELSE 0

\* C1 witness: a call found an expired long token next to a short token that
\* was itself still usable, and refreshed both
C1_Witness ==
    /\ Called /\ OnAssumeRolePath
    /\ last.pre_long # None /\ Expired(last.pre_long)
    /\ PreShortValid
    /\ last.outcome = "ok"
    /\ last.mfa_prompts = 1 /\ last.assume_calls = 1

\* C2: on the assume-role path, a call that finds an unexpired long token of
\* another source profile than the resolved one discards both tokens, even
\* when both expire far in the future, prompts for MFA again and assumes the
\* role again.
C2_SourceProfileSwitchRefreshesBoth ==
    (/\ Called /\ OnAssumeRolePath
     /\ last.pre_long # None /\ ~Expired(last.pre_long)
     /\ last.pre_long.source_profile # ConfigStore[profile].source_profile)
    => /\ LongDiscarded
       /\ ShortDiscarded
       /\ last.mfa_prompts = 1
       /\ last.long_requests = 1
       /\ last.assume_calls = IF LongIssued THEN 1 ELSE 0

\* C2 witness: the long token was of another source profile while the short
\* token was unexpired and of the current profile, and both were replaced
C2_Witness ==
    /\ Called /\ OnAssumeRolePath
    /\ last.pre_long # None /\ ~Expired(last.pre_long)
    /\ last.pre_long.source_profile # ConfigStore[profile].source_profile
    /\ PreShortValid
    /\ last.outcome = "ok"
    /\ long_session_token.source_profile = ConfigStore[profile].source_profile
    /\ short_session_token # last.pre_short

\* C3: on the assume-role path, a call that finds a usable long token and an
\* unexpired short token of another profile keeps the long token unchanged,
\* discards the short token, makes exactly one role-assumption call and no MFA
\* prompt or long-token request.
C3_ProfileSwitchRefreshesShortOnly ==
    (/\ Called /\ OnAssumeRolePath /\ PreLongValid
     /\ last.pre_short # None /\ ~Expired(last.pre_short)
     /\ last.pre_short.profile # profile)
    => /\ long_session_token = last.pre_long
       /\ ShortDiscarded
       /\ last.assume_calls = 1
       /\ last.mfa_prompts = 0
       /\ last.long_requests = 0

\* C3 witness: such a call succeeded and holds a short token of the current
\* profile
C3_Witness ==
    /\ Called /\ OnAssumeRolePath /\ PreLongValid
    /\ last.pre_short # None /\ ~Expired(last.pre_short)
    /\ last.pre_short.profile # profile
    /\ last.outcome = "ok"
    /\ short_session_token.profile = profile

\* C4: a call for a profile whose configuration lacks one of role_arn,
\* mfa_serial, source_profile makes no MFA prompt, no token-service call and
\* no cache write, whatever the handler holds.
C4_NoRolePathDoesNothing ==
    (Called /\ ~OnAssumeRolePath) => NothingDone

\* C4 witness: such a call on a handler that holds a long token read from an
\* existing cache file, for a profile that lacks only role_arn
C4_Witness ==
    /\ Called /\ ~OnAssumeRolePath
    /\ "mfa_serial" \in DOMAIN ConfigStore[profile]
    /\ long_session_token # None
    /\ cache_file.exists

\* C5: for a role-assuming profile on a handler that holds no token, with
\* disk caching enabled and a token service that accepts both requests, a call
\* prompts for MFA exactly once, makes exactly one long-token request of
\* long_session_duration seconds (43200 unless given) and exactly one
\* assume-role request of short_session_duration seconds (900 unless given),
\* and writes the cache file once, with both tokens, the short token's profile
\* being the current profile and the long token's source_profile the resolved
\* one.
C5_FirstCallIssuesAndCachesBoth ==
    (/\ Called /\ OnAssumeRolePath
     /\ last.pre_long = None /\ last.pre_short = None
     /\ last.outcome = "ok" /\ ~disk_cache_disable)
    => /\ last.mfa_prompts = 1
       /\ last.long_requests = 1
       /\ last.long_duration = long_session_duration
       /\ long_session_duration \in
            {43200} \cup ({durations[1] : durations \in DurationArgs} \ {0})
       /\ last.assume_calls = 1
       /\ last.short_duration = short_session_duration
       /\ short_session_duration \in
            {900} \cup ({durations[2] : durations \in DurationArgs} \ {0})
       /\ last.cache_writes = 1
       /\ cache_file.exists
       /\ JsonKeys(cache_file.text) = {"long_session_token", "short_session_token"}
       /\ FileToken("short_session_token").profile = <<"string", profile>>
       /\ FileToken("long_session_token").source_profile =
            <<"string", ConfigStore[profile].source_profile>>
       /\ FileToken("long_session_token").aws_access_key_id =
            <<"string", long_session_token.aws_access_key_id>>
       /\ FileToken("short_session_token").aws_access_key_id =
            <<"string", short_session_token.aws_access_key_id>>

\* C5 witness: the scenario of the specification: profile "dev", no cache
\* file before the call, default durations
C5_Witness ==
    /\ Called /\ profile = "dev"
    /\ last.prev.op = "__init__"
    /\ last.pre_long = None /\ last.pre_short = None
    /\ ~last.pre_cache.exists
    /\ last.outcome = "ok" /\ ~disk_cache_disable
    /\ last.long_duration = 43200 /\ last.short_duration = 900
    /\ cache_file.exists

\* C6: on the assume-role path, a call that finds a long and a short token
\* that are both unexpired beyond the margin and match the resolved
\* source_profile and the current profile makes no MFA prompt, no
\* token-service call and no cache write, keeps both tokens and builds the
\* session from the short token it found.
C6_ValidCacheIsReused ==
    (Called /\ OnAssumeRolePath /\ PreLongValid /\ PreShortValid)
    => /\ NothingDone
       /\ last.outcome = "ok"
       /\ long_session_token = last.pre_long
       /\ short_session_token = last.pre_short
       /\ session.aws_access_key_id = last.pre_short.aws_access_key_id
       /\ session.aws_secret_access_key = last.pre_short.aws_secret_access_key
       /\ session.aws_session_token = last.pre_short.aws_session_token

\* C6 witness: the first call of a handler constructed over a cache file with
\* two usable tokens
C6_Witness ==
    /\ Called /\ OnAssumeRolePath /\ PreLongValid /\ PreShortValid
    /\ last.prev.op = "__init__"
    /\ last.pre_short.aws_access_key_id = <<"ASIA", "cached-short", 0>>
    /\ session.aws_access_key_id = <<"ASIA", "cached-short", 0>>

\* C7: a get_session call that directly follows a successful get_session call
\* (no time elapsed, no set() in between) makes no MFA prompt, no
\* token-service call and no cache write and leaves both tokens unchanged.
C7_Idempotent ==
    (Called /\ last.prev.op = "get_session" /\ last.prev.outcome = "ok")
    => /\ NothingDone
       /\ long_session_token = last.pre_long
       /\ short_session_token = last.pre_short

\* C7 witness: a second call on the assume-role path, after a first call
\* that obtained both tokens
C7_Witness ==
    /\ Called /\ last.prev.op = "get_session" /\ last.prev.outcome = "ok"
    /\ OnAssumeRolePath
    /\ last.pre_long.aws_access_key_id = <<"ASIA", "long", now>>
    /\ last.pre_short.aws_access_key_id = <<"ASIA", "short", now>>
    /\ short_session_token = last.pre_short

\* C8 (as claimed): with disk caching enabled, every successful call in which
\* a long token or a short token is obtained from the token service marks
\* "tokens changed" and ends with the cache file holding exactly the handler's
\* long and short tokens.
C8_EveryIssueIsPersisted ==
    (/\ Called /\ last.outcome = "ok" /\ ~disk_cache_disable
     /\ (LongIssued \/ ShortIssued))
    => /\ last.token_changed
       /\ last.cache_writes = 1
       /\ cache_file.exists
       /\ written = [long |-> long_session_token, short |-> short_session_token]

\* C9: every call that writes the cache file obtained at least one token from
\* the token service in that same call; a call that obtains no token, or that
\* fails, leaves the cache file unchanged.
C9_WritesOnlyAfterRefresh ==
    Called =>
       /\ (last.cache_writes > 0 \/ cache_file # last.pre_cache)
            => (last.outcome = "ok" /\ (LongIssued \/ ShortIssued))
       /\ ((~LongIssued /\ ~ShortIssued) \/ last.outcome # "ok")
            => (last.cache_writes = 0 /\ cache_file = last.pre_cache)

\* C9 witness: a call whose long-token request was accepted and whose
\* assume-role request was rejected, over an existing cache file that it left
\* alone
C9_Witness ==
    /\ Called /\ last.outcome = "assume_role_rejected"
    /\ LongIssued
    /\ last.pre_cache.exists
    /\ cache_file = last.pre_cache

\* C10: a fresh handler constructed, with disk caching enabled, over a cache
\* file that a handler wrote holds long and short tokens equal field by field
\* to the tokens that were written.
C10_CacheRoundTrip ==
    (last.op = "__init__" /\ ~disk_cache_disable /\ written # None)
    => /\ long_session_token = written.long
       /\ short_session_token = written.short

\* C10 witness: a fresh handler holds the two tokens an earlier handler
\* obtained and wrote, one of them with no region
C10_Witness ==
    /\ last.op = "__init__" /\ ~disk_cache_disable /\ written # None
    /\ last.prev.op = "get_session"
    /\ long_session_token # None /\ short_session_token # None
    /\ long_session_token.region = NoneStr
    /\ short_session_token.aws_access_key_id = <<"ASIA", "short", now>>

\* the caller gave the region selector explicitly: it is a region argument,
\* which no profile of the store names
ExplicitRegion == region \in RegionArgs \ {NoneStr}

\* the session is the one of the current profile: built from the short token
\* of that profile on the assume-role path, and from the profile's own
\* credentials otherwise
SessionIsForProfile ==
    IF OnAssumeRolePath
    THEN /\ short_session_token # None
         /\ short_session_token.profile = profile
         /\ "aws_access_key_id" \in DOMAIN session
         /\ session.aws_access_key_id = short_session_token.aws_access_key_id
         /\ session.aws_secret_access_key
              = short_session_token.aws_secret_access_key
         /\ session.aws_session_token = short_session_token.aws_session_token
    ELSE /\ "botocore_profile" \in DOMAIN session
         /\ session.botocore_profile = profile

\* C11 (as claimed): the successful get_session call that directly follows a
\* set() has resolved the configuration of the profile now selected, returns
\* a session for that profile (on the assume-role path one built from a short
\* token whose profile field is the new profile), and, when the set() gave a
\* region, a session for that region.
C11_SetTakesEffectOnNextCall ==
    (Called /\ last.outcome = "ok" /\ last.prev.op = "set")
    => /\ config = ConfigStore[profile]
       /\ SessionIsForProfile
       /\ TruthyArg(last.prev.set_region)
            => (region = last.prev.set_region
                /\ session.region_name = last.prev.set_region)

\* C12 (as claimed): a successful get_session call on the no-role-assumption
\* path, made while the caller's explicit region is the region selector,
\* returns a session whose region is that explicit region.
C12_DefaultPathSessionCarriesExplicitRegion ==
    (Called /\ last.outcome = "ok" /\ ~OnAssumeRolePath /\ ExplicitRegion)
    => session.region_name = region

\* the region the configuration store has for the current profile
StoredRegion ==
    IF "region" \in DOMAIN ConfigStore[profile]
    THEN ConfigStore[profile].region ELSE NoneStr

\* C13: a constructor or get_session call that finds the region selector
\* unset adopts the region stored for the current profile; one that finds it
\* set keeps it, whatever region the current profile stores, and a successful
\* call on the assume-role path returns a session for it; set() changes the
\* region selector only when it is given a region.
C13_RegionResolution ==
    /\ (last.op \in {"__init__", "get_session"} /\ ~TruthyArg(last.pre_region))
       => region = StoredRegion
    /\ (last.op \in {"__init__", "get_session"} /\ TruthyArg(last.pre_region))
       => region = last.pre_region
    /\ (Called /\ last.outcome = "ok" /\ OnAssumeRolePath)
       => session.region_name = region
    /\ last.op = "set"
       => region = IF TruthyArg(last.set_region) THEN last.set_region
                   ELSE last.pre_region

\* C13 witness: a handler that adopted eu-west-1 from its first profile was
\* switched by set(profile=...) to a profile that stores us-east-1, and the
\* next get_session call returned a session for eu-west-1
C13_Witness ==
    /\ Called /\ last.outcome = "ok" /\ last.prev.op = "set"
    /\ OnAssumeRolePath
    /\ StoredRegion = "us-east-1"
    /\ last.pre_region = "eu-west-1"
    /\ region = "eu-west-1"
    /\ session.region_name = "eu-west-1"

\* the long-token request of the call was rejected by the token service
LongRequestRejected == Called /\ last.outcome = "long_request_rejected"

\* C16: a get_session call whose long-token request the token service
\* rejects ends with that failure after exactly one MFA prompt and one
\* long-token request, holds no long token, has made no assume-role call and
\* no cache write and has left the cache file alone; the get_session call
\* that directly follows it prompts for MFA again.
C16_RejectedLongRequestPropagates ==
    /\ LongRequestRejected
       => /\ last.mfa_prompts = 1
          /\ last.long_requests = 1
          /\ long_session_token = None
          /\ last.assume_calls = 0
          /\ last.cache_writes = 0
          /\ cache_file = last.pre_cache
    /\ (Called /\ last.prev.op = "get_session"
               /\ last.prev.outcome = "long_request_rejected")
       => (last.mfa_prompts = 1 /\ last.long_requests = 1)

\* C16 witness: over an existing cache file, a call whose MFA code was
\* rejected directly after a call whose MFA code was rejected
C16_Witness ==
    /\ LongRequestRejected
    /\ last.prev.op = "get_session"
    /\ last.prev.outcome = "long_request_rejected"
    /\ last.mfa_prompts = 1
    /\ long_session_token = None
    /\ cache_file.exists

AtMargin(tok) == tok # None /\ Instant(tok) = now + 10

\* C18: after every successful get_session call on the assume-role path the
\* session is built from the short token held; that short token expires
\* strictly later than now + 10 s and is the one of the current profile; the
\* long token held expires strictly later than now + 10 s and has the source
\* profile the configuration names.  A long or short token the call found
\* expiring exactly at now + 10 s is not kept.
C18_TokensUsableAfterCall ==
    /\ (Called /\ last.outcome = "ok" /\ OnAssumeRolePath)
       => /\ SessionIsForProfile
          /\ Instant(short_session_token) > now + 10
          /\ short_session_token.profile = profile
          /\ long_session_token # None
          /\ Instant(long_session_token) > now + 10
          /\ long_session_token.source_profile
               = ConfigStore[profile].source_profile
    /\ (Called /\ OnAssumeRolePath /\ AtMargin(last.pre_long))
       => long_session_token # last.pre_long
    /\ (Called /\ OnAssumeRolePath /\ AtMargin(last.pre_short))
       => short_session_token # last.pre_short

\* C18 witness: a successful call that found a long and a short token, both
\* of the current profile and both expiring exactly at now + 10 s (their
\* expiry is written with a +01:00 offset), and replaced both
C18_Witness ==
    /\ Called /\ last.outcome = "ok" /\ OnAssumeRolePath
    /\ AtMargin(last.pre_long) /\ AtMargin(last.pre_short)
    /\ last.pre_long.expire.off = 3600
    /\ last.pre_long.source_profile = ConfigStore[profile].source_profile
    /\ last.pre_short.profile = profile
    /\ last.mfa_prompts = 1 /\ last.assume_calls = 1
    /\ Instant(short_session_token) > now + 10

\* the step is a get_session call
CallStep == last'.op = "get_session"

\* the session held was built on the no-role-assumption path
DefaultPathSession == "botocore_profile" \in DOMAIN session

\* the handler holds a long and a short token that are usable for the current
\* profile
HeldTokensValid ==
    /\ long_session_token # None
    /\ ~Expired(long_session_token)
    /\ long_session_token.source_profile = ConfigStore[profile].source_profile
    /\ short_session_token # None
    /\ ~Expired(short_session_token)
    /\ short_session_token.profile = profile

\* C20: a get_session call on the no-role-assumption path leaves the long
\* token, the short token and the cache file exactly as they were; and the
\* get_session call that follows a set() to a role-assuming profile, on a
\* handler whose last session was built on the no-role-assumption path and
\* whose tokens are still usable for that profile, makes no MFA prompt, no
\* token-service call and no cache write and keeps both tokens.
C20_DefaultPathLeavesTokensAlone ==
    [][/\ (CallStep /\ ~OnAssumeRolePath)
          => /\ long_session_token' = long_session_token
             /\ short_session_token' = short_session_token
             /\ cache_file' = cache_file
             /\ written' = written
       /\ (/\ CallStep /\ last.op = "set" /\ DefaultPathSession
           /\ OnAssumeRolePath /\ HeldTokensValid)
          => /\ last'.outcome = "ok"
             /\ last'.mfa_prompts = 0
             /\ last'.long_requests = 0
             /\ last'.assume_calls = 0
             /\ last'.cache_writes = 0
             /\ long_session_token' = long_session_token
             /\ short_session_token' = short_session_token
             /\ cache_file' = cache_file
             /\ session'.aws_access_key_id
                  = short_session_token.aws_access_key_id]_vars

\* C20 witness: a get_session call on the no-role-assumption path, over a
\* cache file, was followed by a set() to a role-assuming profile, and the
\* handler still holds the long and short tokens usable for that profile
C20_Witness ==
    /\ last.op = "set" /\ last.prev.op = "get_session"
    /\ DefaultPathSession
    /\ OnAssumeRolePath /\ HeldTokensValid
    /\ cache_file.exists
    /\ steps < MaxSteps

\* the last operation was a session request: get_session, client or resource
SessionRequested == last.op \in {"get_session", "client", "resource"}

\* C14 (as claimed): a session request (get_session, client or resource) on
\* a handler that has neither a profile nor a region fails with the
\* missing-region-and-profile error, without an MFA prompt, a token-service
\* call or a cache write.
C14_NoProfileNoRegionFails ==
    (SessionRequested /\ ~TruthyArg(profile) /\ ~TruthyArg(last.pre_region))
    => /\ last.outcome = "missing_region_and_profile"
       /\ NothingDone

\* the cache file holds no token the constructor can use: its text is not
\* JSON, or it is a JSON object without the token fields
CacheContentUnusable ==
    /\ cache_file.exists
    /\ cache_file.text \in {GarbageText, JsonObject(<<>>)}

\* C15 (as claimed): constructing a handler, with disk caching enabled, over
\* an existing cache file whose content is not JSON or lacks the token fields
\* succeeds and leaves both tokens absent.
C15_DamagedCacheIsSoftFailure ==
    (last.op = "__init__" /\ ~disk_cache_disable /\ CacheContentUnusable)
    => /\ last.outcome = "ok"
       /\ long_session_token = None
       /\ short_session_token = None

\* both threads have finished their call
BothDone == thr.pc = <<"done", "done">>

\* C19: when the callers run the whole get_session call as one critical
\* section, the two calls together are issued at most one long token, and,
\* unless the token service rejects a long-token request, make at most one
\* long-token request.  (That without the critical section two long-token
\* requests can be made for one invalidation is what the witness shows.)
C19_CriticalSectionOneLongRequest ==
    thr.mode = "locked"
    => /\ thr.long_issued <= 1
       /\ thr.rejected = 0 => thr.long_requests <= 1
       /\ \A t \in ThreadIds :
            thr.pc[t] \notin {"idle", "done"} => thr.holder = t

\* C19 witness: with no mutual exclusion, over a handler that holds no long
\* token, both threads passed the test of the long token before either
\* request returned, and two long-token requests were made and accepted
C19_Witness ==
    /\ thr.mode = "free"
    /\ BothDone
    /\ thr.long_requests = 2
    /\ thr.long_issued = 2
    /\ thr.rejected = 0
    /\ session # None

====
